---------------------------- MODULE Spec2Model ----------------------------
(***************************************************************************)
(* The campaign analytics page of src/components/CampaignAnalytics.tsx:    *)
(* the useCampaignData loader, the CallLogTable (duration sort, export,    *)
(* row activation), the CallDetailsModal selection and the part of the     *)
(* page's render that decides which screen is shown and what the average   *)
(* duration card displays.                                                 *)
(*                                                                         *)
(* One step of the model is one task of the browser's event loop: a UI     *)
(* event handler, a change of the route parameter, or the continuation of  *)
(* fetchData after its await, each together with the re-render and the     *)
(* effects React runs before the next event is handled.                    *)
(***************************************************************************)
EXTENDS Integers, Sequences, FiniteSets, TLC

\* Most loads of useCampaignData that are awaiting their fetches at once.
MaxInFlight == 2

\* Longest list of call logs the data store answers with.
MaxLogs == 2

(***************************************************************************)
(* JavaScript values.  A value is a record with its type t; a string keeps *)
(* its text in s, a number its value as the fraction n/d.  NaN is the      *)
(* number whose text is "NaN".  A string produced by toFixed(2) is a       *)
(* decimal string: it keeps the count of hundredths it prints in n.        *)
(***************************************************************************)
Undefined == [t |-> "undefined", s |-> "", n |-> 0, d |-> 1]

JsNull == [t |-> "null", s |-> "", n |-> 0, d |-> 1]

Str(text) == [t |-> "string", s |-> text, n |-> 0, d |-> 1]

Num(k) == [t |-> "number", s |-> "", n |-> k, d |-> 1]

NaN == [t |-> "number", s |-> "NaN", n |-> 0, d |-> 1]

Decimal2(hundredths) == [t |-> "string", s |-> "#.##", n |-> hundredths, d |-> 100]

\* ToBoolean: undefined, null, "", 0 and NaN are falsy.
Truthy(v) ==
    CASE v.t = "undefined" -> FALSE
      [] v.t = "null"      -> FALSE
      [] v.t = "string"    -> v.s # ""
      [] v.t = "number"    -> v.s # "NaN" /\ v.n # 0
      [] OTHER             -> TRUE

\* a || b
Or(a, b) == IF Truthy(a) THEN a ELSE b

\* a / b on numbers: 0 / 0 is NaN (no other division by zero occurs here).
Divide(a, b) ==
    IF a.s = "NaN" \/ b.s = "NaN" \/ b.n = 0
    THEN NaN
    ELSE [t |-> "number", s |-> "", n |-> a.n * b.d, d |-> a.d * b.n]

\* x.toFixed(2) for x >= 0: "NaN" for NaN, else x rounded to hundredths.
ToFixed2(x) ==
    IF x.s = "NaN"
    THEN Str("NaN")
    ELSE Decimal2((2 * 100 * x.n + x.d) \div (2 * x.d))

\* x?.toFixed(2)
OptToFixed2(x) == IF x.t \in {"undefined", "null"} THEN Undefined ELSE ToFixed2(x)

(***************************************************************************)
(* The data store (../utils/db): call logs and campaigns.  A CallLog keeps *)
(* the columns that the table, the aggregates and the export treat         *)
(* specially; the other columns (phone number, first name, start time,     *)
(* summary, transcript) are copied like callId.                            *)
(***************************************************************************)
CallLog(k) ==
    CASE k = 1 -> [callId |-> Str("call-1"), call_duration |-> Num(10),
                   disconnection_reason |-> Str("completed"),
                   user_sentiment |-> Str("Positive"),
                   call_recording |-> Str("https://rec/1")]
      [] k = 2 -> [callId |-> Str("call-2"), call_duration |-> JsNull,
                   disconnection_reason |-> JsNull,
                   user_sentiment |-> JsNull,
                   call_recording |-> JsNull]
      [] OTHER -> [callId |-> Str("call-3"), call_duration |-> Num(0),
                   disconnection_reason |-> Str("no-answer"),
                   user_sentiment |-> Str("Negative"),
                   call_recording |-> Str("https://rec/3")]

CallLogs == {CallLog(1), CallLog(2), CallLog(3)}

\* The lists getCallLogs can answer with: the logs of a campaign, each once.
CallLogLists ==
    {l \in UNION {[1..m -> CallLogs] : m \in 0..MaxLogs} :
        \A i, j \in DOMAIN l : i # j => l[i] # l[j]}

\* What getCampaign can answer with: no campaign, or one with a title.
Campaigns == {JsNull, [title |-> Str("Spring")]}

\* getCallLogs(campaignId) and getCampaign(campaignId): what the promise is
\* fulfilled with, if it is.
getCallLogs(campaignId) == CallLogLists

getCampaign(campaignId) == Campaigns

\* Where one promise stands when Promise.all settles.
PromiseStates == {"pending", "fulfilled", "rejected"}

\* Promise.all of two promises: rejected as soon as one is, fulfilled once both are.
PromiseAll(a, b) ==
    IF a = "rejected" \/ b = "rejected" THEN "rejected"
    ELSE IF a = "fulfilled" /\ b = "fulfilled" THEN "fulfilled"
    ELSE "pending"

\* The route's :id parameter, and parseInt(id, 10) of it.
RouteIds == {Undefined, Str("1"), Str("2")}

ParseInt(id) == CASE id.s = "1" -> 1 [] id.s = "2" -> 2 [] OTHER -> 0

LoadFailedMessage == Str("Failed to load campaign data. Please try again.")

VARIABLES
    id,               \* useParams().id
    callLogs,         \* useCampaignData: callLogs
    campaignTitle,    \* useCampaignData: campaignTitle
    loading,          \* useCampaignData: loading
    error,            \* useCampaignData: error
    inflight,         \* the campaign ids of the fetchData calls awaiting Promise.all, oldest first
    settled,          \* what Promise.all delivered to fetchData in the step just taken
    sortedLogs,       \* CallLogTable: sortedLogs (<<>> while the table is not mounted)
    sortConfig,       \* CallLogTable: sortConfig
    selectedCallLog,  \* CampaignAnalytics: selectedCallLog
    download          \* the rows handed to XLSX.writeFile in the step just taken

vars == <<id, callLogs, campaignTitle, loading, error, inflight, settled,
          sortedLogs, sortConfig, selectedCallLog, download>>

\* settled: the load's campaign id (0: no load settled in this step), where
\* its two fetches stood, and what they were fulfilled with.
NoSettle == [id |-> 0, logs |-> "pending", campaign |-> "pending",
             logsValue |-> <<>>, campaignValue |-> JsNull]

NoDownload == [written |-> FALSE, rows |-> <<>>]

InitialSortConfig == [key |-> "call_duration", direction |-> "null"]

(***************************************************************************)
(* The page's render.                                                      *)
(***************************************************************************)
\* Which of the three returns of CampaignAnalytics is rendered.
Screen(isLoading, err) ==
    IF isLoading THEN "loading"
    ELSE IF Truthy(err) THEN "error"
    ELSE "main"

View == Screen(loading, error)

\* CallLogTable is part of the main screen only.
TableMounted == View = "main"

\* The value of the "Avg. Call Duration" card.
Sum(logs) ==
    LET RECURSIVE Acc(_)
        Acc(i) == IF i = 0 THEN 0
                  ELSE Acc(i - 1) + Or(logs[i].call_duration, Num(0)).n
    IN Num(Acc(Len(logs)))

averageCallDuration(logs) == Divide(Sum(logs), Num(Len(logs)))

AverageCard(logs) == ToFixed2(averageCallDuration(logs))

\* The call log CallDetailsModal shows, JsNull when no modal is rendered.
ModalShown ==
    IF View = "main" /\ selectedCallLog # JsNull THEN selectedCallLog ELSE JsNull

(***************************************************************************)
(* useCampaignData.                                                        *)
(***************************************************************************)
\* fetchData up to its await: a load is started only for a truthy id.
StartLoad(newId, loads) ==
    IF Truthy(newId) THEN Append(loads, ParseInt(newId)) ELSE loads

RemoveAt(s, i) == [j \in 1..(Len(s) - 1) |-> IF j < i THEN s[j] ELSE s[j + 1]]

\* The table's state after a render that follows a step of the loader:
\* mounted with the list it is given, its effect on [callLogs] setting
\* sortedLogs, the sort configuration kept while it stays mounted.
TableAfter(wasMounted, isMounted, logs, logsChanged, oldSorted, oldConfig) ==
    IF ~isMounted THEN [sorted |-> <<>>, config |-> InitialSortConfig]
    ELSE IF ~wasMounted THEN [sorted |-> logs, config |-> InitialSortConfig]
    ELSE IF logsChanged THEN [sorted |-> logs, config |-> oldConfig]
    ELSE [sorted |-> oldSorted, config |-> oldConfig]

Init ==
    /\ id \in RouteIds
    /\ callLogs = <<>>
    /\ campaignTitle = Str("")
    /\ loading = TRUE
    /\ error = JsNull
    /\ inflight = StartLoad(id, <<>>)
    /\ settled = NoSettle
    /\ sortedLogs = <<>>
    /\ sortConfig = InitialSortConfig
    /\ selectedCallLog = JsNull
    /\ download = NoDownload

\* The route parameter changes: the effect on [id] runs fetchData again.
\* Nothing is done about the loads already in flight.
ChangeId(newId) ==
    /\ newId # id
    /\ Len(StartLoad(newId, inflight)) <= MaxInFlight
    /\ id' = newId
    /\ inflight' = StartLoad(newId, inflight)
    /\ settled' = NoSettle
    /\ download' = NoDownload
    /\ UNCHANGED <<callLogs, campaignTitle, loading, error,
                   sortedLogs, sortConfig, selectedCallLog>>

\* StoreResult with a guard that drops the response of a load the route has
\* moved away from.
StoreResultUnlessStale(currentId, loadId, logs, campaign, old) ==
    IF ParseInt(currentId) = loadId
    THEN [callLogs |-> logs,
          campaignTitle |-> Or(IF campaign = JsNull THEN Undefined ELSE campaign.title,
                               Str("Campaign"))]
    ELSE old

\* What setCallLogs(logs) and setCampaignTitle(campaign?.title || 'Campaign')
\* store for the load of loadId while the route's id is currentId and the
\* state holds old: neither currentId, loadId nor old is read.
StoreResult(currentId, loadId, logs, campaign, old) ==
    [callLogs |-> logs,
     campaignTitle |-> Or(IF campaign = JsNull THEN Undefined ELSE campaign.title,
                          Str("Campaign"))]

\* ErrorAfterSuccess with the error cleared by a load that succeeds.
ErrorClearedBySuccess(err) == JsNull

\* The error after a load went through without a rejection.
ErrorAfterSuccess(err) == err

\* LoadsAfterFailure with the failed load started again.
LoadsAfterFailureRetried(loadId, loads) == Append(loads, loadId)

\* The loads in flight after the catch block.
LoadsAfterFailure(loadId, loads) == loads

\* The re-render that follows a step of the loader.
RenderTable(logsSet) ==
    LET table == TableAfter(TableMounted, Screen(loading', error') = "main",
                            callLogs', logsSet, sortedLogs, sortConfig)
    IN /\ sortedLogs' = table.sorted
       /\ sortConfig' = table.config

\* Both fetches of the i-th load in flight are fulfilled: fetchData runs on
\* after its await, through the try block and the finally block.
SettleFulfilled(i, logs, campaign) ==
    /\ PromiseAll("fulfilled", "fulfilled") = "fulfilled"
    /\ LET stored == StoreResult(id, inflight[i], logs, campaign,
                                 [callLogs |-> callLogs, campaignTitle |-> campaignTitle])
       IN /\ callLogs' = stored.callLogs
          /\ campaignTitle' = stored.campaignTitle
    /\ error' = ErrorAfterSuccess(error)
    /\ loading' = FALSE
    /\ RenderTable(TRUE)
    /\ inflight' = RemoveAt(inflight, i)
    /\ settled' = [id |-> inflight[i], logs |-> "fulfilled", campaign |-> "fulfilled",
                   logsValue |-> logs, campaignValue |-> campaign]
    /\ download' = NoDownload
    /\ UNCHANGED <<id, selectedCallLog>>

\* A fetch of the i-th load in flight is rejected, the other one standing
\* anywhere: fetchData runs on through the catch block and the finally block.
SettleRejected(i, logsState, campaignState) ==
    /\ PromiseAll(logsState, campaignState) = "rejected"
    /\ error' = LoadFailedMessage
    /\ loading' = FALSE
    /\ RenderTable(FALSE)
    /\ inflight' = LoadsAfterFailure(inflight[i], RemoveAt(inflight, i))
    /\ settled' = [id |-> inflight[i], logs |-> logsState, campaign |-> campaignState,
                   logsValue |-> <<>>, campaignValue |-> JsNull]
    /\ download' = NoDownload
    /\ UNCHANGED <<id, callLogs, campaignTitle, selectedCallLog>>

(***************************************************************************)
(* CallLogTable.                                                           *)
(***************************************************************************)

\* Compare with the direction ignored.
CompareAscendingOnly(a, b, direction) ==
    Or(a.call_duration, Num(0)).n - Or(b.call_duration, Num(0)).n

\* The sort callback of handleSort: a.call_duration || 0 against b's.
Compare(a, b, direction) ==
    LET aValue == Or(a.call_duration, Num(0)).n
        bValue == Or(b.call_duration, Num(0)).n
    IN IF direction = "asc" THEN aValue - bValue ELSE bValue - aValue

\* Array.prototype.sort with that callback: a stable sort, here by insertion.
RECURSIVE Insert(_, _, _)
Insert(x, s, direction) ==
    IF s = <<>> THEN <<x>>
    ELSE IF Compare(s[Len(s)], x, direction) <= 0 THEN Append(s, x)
    ELSE Append(Insert(x, SubSeq(s, 1, Len(s) - 1), direction), s[Len(s)])

RECURSIVE Sort(_, _)
Sort(s, direction) ==
    IF s = <<>> THEN <<>>
    ELSE Insert(s[Len(s)], Sort(SubSeq(s, 1, Len(s) - 1), direction), direction)

\* The direction handleSort moves to.
NextDirection(direction) ==
    IF direction = "asc" THEN "desc"
    ELSE IF direction = "desc" THEN "null"
    ELSE "asc"

\* The list handleSort displays: the source list for no direction, else a
\* sorted copy of the list displayed so far.
SortedData(direction, displayed, source) ==
    IF direction = "null" THEN source ELSE Sort(displayed, direction)

handleSort ==
    /\ TableMounted
    /\ LET direction == NextDirection(sortConfig.direction)
       IN /\ sortConfig' = [key |-> "call_duration", direction |-> direction]
          /\ sortedLogs' = SortedData(direction, sortedLogs, callLogs)
    /\ settled' = NoSettle
    /\ download' = NoDownload
    /\ UNCHANGED <<id, callLogs, campaignTitle, loading, error, inflight,
                   selectedCallLog>>

\* One record of exportData.
ExportRecord(log) ==
    [CallID |-> log.callId,
     DisconnectionReason |-> Or(log.disconnection_reason, Str("N/A")),
     DurationSec |-> OptToFixed2(log.call_duration),
     Sentiment |-> log.user_sentiment,
     CallRecordingURL |-> log.call_recording]

\* ExportData reading the list as fetched.
ExportDataOfSource(displayed, source) ==
    [i \in 1..Len(source) |-> ExportRecord(source[i])]

\* exportData of handleExport.
ExportData(displayed, source) == [i \in 1..Len(displayed) |-> ExportRecord(displayed[i])]

handleExport ==
    /\ TableMounted
    /\ download' = [written |-> TRUE, rows |-> ExportData(sortedLogs, callLogs)]
    /\ settled' = NoSettle
    /\ UNCHANGED <<id, callLogs, campaignTitle, loading, error, inflight,
                   sortedLogs, sortConfig, selectedCallLog>>

\* RowLog reading the list as fetched.
RowLogOfSource(row, displayed, source) == source[row]

\* The log a click on the row-th row hands to onRowClick.
RowLog(row, displayed, source) == displayed[row]

\* onClick of a table row: onRowClick is setSelectedCallLog.
onRowClick(row) ==
    /\ TableMounted
    /\ row \in 1..Len(sortedLogs)
    /\ selectedCallLog' = RowLog(row, sortedLogs, callLogs)
    /\ settled' = NoSettle
    /\ download' = NoDownload
    /\ UNCHANGED <<id, callLogs, campaignTitle, loading, error, inflight,
                   sortedLogs, sortConfig>>

\* onClose of CallDetailsModal, which is there to click only while rendered.
onClose ==
    /\ ModalShown # JsNull
    /\ selectedCallLog' = JsNull
    /\ settled' = NoSettle
    /\ download' = NoDownload
    /\ UNCHANGED <<id, callLogs, campaignTitle, loading, error, inflight,
                   sortedLogs, sortConfig>>

Next ==
    \/ \E newId \in RouteIds : ChangeId(newId)
    \/ \E i \in 1..Len(inflight) :
         \E logs \in getCallLogs(inflight[i]), campaign \in getCampaign(inflight[i]) :
            SettleFulfilled(i, logs, campaign)
    \/ \E i \in 1..Len(inflight) :
         \E logsState, campaignState \in PromiseStates :
            SettleRejected(i, logsState, campaignState)
    \/ handleSort
    \/ handleExport
    \/ \E row \in 1..MaxLogs : onRowClick(row)
    \/ onClose

Spec == Init /\ [][Next]_vars

(***************************************************************************)
(* The claims.                                                             *)
(***************************************************************************)
\* The duration the sort orders by, read off the log without the code's ||.
Duration(log) == IF log.call_duration = JsNull THEN 0 ELSE log.call_duration.n

NonDecreasing(logs) ==
    \A i, j \in DOMAIN logs : i < j => Duration(logs[i]) <= Duration(logs[j])

NonIncreasing(logs) ==
    \A i, j \in DOMAIN logs : i < j => Duration(logs[i]) >= Duration(logs[j])

Occurrences(x, logs) == Cardinality({i \in DOMAIN logs : logs[i] = x})

Permutation(a, b) ==
    /\ Len(a) = Len(b)
    /\ \A i \in DOMAIN a : Occurrences(a[i], a) = Occurrences(a[i], b)

LoadSettled == settled.id # 0

LoadSucceeded == LoadSettled /\ settled.logs = "fulfilled" /\ settled.campaign = "fulfilled"

LoadFailed == LoadSettled /\ "rejected" \in {settled.logs, settled.campaign}

\* C1: while a load is in flight, the first one or a later one, the page
\* renders the loading indicator.
C1_LoadingWhileInFlight == inflight # <<>> => View = "loading"

\* C2: a change of the campaign identifier cancels no load in flight, and a
\* load that succeeds stores its call logs and title whatever the current
\* identifier is, so the load that resolves last wins.
C2_LastToResolveWins ==
    /\ [](LoadSucceeded =>
            /\ callLogs = settled.logsValue
            /\ campaignTitle = IF settled.campaignValue = JsNull
                               THEN Str("Campaign")
                               ELSE settled.campaignValue.title)
    /\ [][id' # id => SubSeq(inflight', 1, Len(inflight)) = inflight]_vars

\* C2 witness: the identifier is 2 and its load settled without an error, and
\* the load of 1, resolving last, has just stored its logs and title.
C2_StaleLoadStored ==
    /\ id = Str("2")
    /\ inflight = <<>>
    /\ error = JsNull
    /\ LoadSucceeded
    /\ settled.id = 1
    /\ callLogs = settled.logsValue
    /\ Len(callLogs) = MaxLogs
    /\ campaignTitle = Str("Spring")

\* C3: a load of which a fetch rejects, the other one fulfilled or not, sets
\* the static error message and loading to false, leaves the stored call
\* logs and title as they were, and starts no load again.
C3_RejectionSetsErrorOnly ==
    [][LoadFailed' =>
         /\ error' = Str("Failed to load campaign data. Please try again.")
         /\ loading' = FALSE
         /\ callLogs' = callLogs
         /\ campaignTitle' = campaignTitle
         /\ Len(inflight') = Len(inflight) - 1]_vars

\* C3 witness: the call logs were fulfilled and the campaign rejected, after
\* an earlier load had stored logs, which are still there.
C3_PartialSuccessIsFailure ==
    /\ LoadFailed
    /\ settled.logs = "fulfilled"
    /\ settled.campaign = "rejected"
    /\ error = LoadFailedMessage
    /\ ~loading
    /\ callLogs # <<>>
    /\ campaignTitle = Str("Spring")

\* A step of the mounted table that moves the sort direction.
SortActivation ==
    TableMounted /\ TableMounted' /\ sortConfig'.direction # sortConfig.direction

\* C4: an activation of the duration sort control moves none to ascending,
\* ascending to descending and descending to none; the displayed list is then
\* a permutation of the fetched list in non-decreasing duration (null as 0),
\* one in non-increasing duration, and the fetched list itself; the fetched
\* list is not changed.
C4_SortCycle ==
    [][SortActivation =>
         /\ callLogs' = callLogs
         /\ Permutation(sortedLogs', callLogs)
         /\ CASE sortConfig.direction = "null" ->
                   sortConfig'.direction = "asc" /\ NonDecreasing(sortedLogs')
              [] sortConfig.direction = "asc" ->
                   sortConfig'.direction = "desc" /\ NonIncreasing(sortedLogs')
              [] OTHER ->
                   sortConfig'.direction = "null" /\ sortedLogs' = callLogs]_vars

\* C4 witness: after two activations a list with a null duration is shown in
\* non-increasing duration, which is not its fetch order.
C4_SortedDescending ==
    /\ TableMounted
    /\ sortConfig.direction = "desc"
    /\ Len(callLogs) = MaxLogs
    /\ \E i \in DOMAIN callLogs : callLogs[i].call_duration = JsNull
    /\ sortedLogs # callLogs
    /\ NonIncreasing(sortedLogs)

\* C5: in every state the displayed order agrees with the sort direction:
\* ascending is non-decreasing duration, descending non-increasing, none the
\* fetch order (the sort state being reset when the list changes).
C5_OrderAgreesWithDirection ==
    TableMounted =>
        /\ sortConfig.direction = "asc" => NonDecreasing(sortedLogs)
        /\ sortConfig.direction = "desc" => NonIncreasing(sortedLogs)
        /\ sortConfig.direction = "null" => sortedLogs = callLogs

\* C6: the average call duration card never shows NaN, an empty list of call
\* logs included.
C6_AverageNeverNaN == View = "main" => AverageCard(callLogs) # Str("NaN")

\* C7 as stated: the modal is rendered exactly when the selection is not empty.
C7_ModalIffSelected == (ModalShown # JsNull) <=> (selectedCallLog # JsNull)

\* C7 as amended: the selection is one call log or none; activating a row
\* selects the log at that position of the displayed order; the modal is
\* rendered exactly when the selection is not empty and the main screen is
\* shown, and shows the selected log; dismissing it empties the selection and
\* the modal is rendered no longer.
C7_SelectionAndModal ==
    /\ [](/\ selectedCallLog \in CallLogs \cup {JsNull}
          /\ (ModalShown # JsNull) <=> (selectedCallLog # JsNull /\ View = "main")
          /\ ModalShown # JsNull => ModalShown = selectedCallLog)
    /\ [][/\ \A row \in 1..MaxLogs :
                onRowClick(row) => selectedCallLog' = sortedLogs[row]
          /\ onClose => selectedCallLog' = JsNull /\ ModalShown' = JsNull]_vars

\* C7 witness: with the table sorted, the first displayed row, which is not
\* the first fetched log, is selected and shown by the modal.
C7_SortedRowSelected ==
    /\ TableMounted
    /\ sortConfig.direction = "asc"
    /\ sortedLogs # <<>>
    /\ sortedLogs[1] # callLogs[1]
    /\ selectedCallLog = sortedLogs[1]
    /\ ModalShown = selectedCallLog

\* C8: the export holds one record per displayed row, in the displayed order.
C8_ExportFollowsDisplay ==
    download.written =>
        /\ Len(download.rows) = Len(sortedLogs)
        /\ \A i \in DOMAIN sortedLogs : download.rows[i].CallID = sortedLogs[i].callId

\* C8 witness: an export of a sorted table whose order is not the fetch order.
C8_ExportOfSortedTable ==
    /\ download.written
    /\ sortConfig.direction = "desc"
    /\ sortedLogs # callLogs
    /\ Len(download.rows) = MaxLogs

\* C9: in an exported record, a missing disconnection reason, duration,
\* sentiment or recording URL is the string "N/A".
C9_MissingIsNA ==
    download.written =>
        \A i \in DOMAIN download.rows :
            LET log == sortedLogs[i]
                record == download.rows[i]
            IN /\ log.disconnection_reason = JsNull =>
                    record.DisconnectionReason = Str("N/A")
               /\ log.call_duration = JsNull => record.DurationSec = Str("N/A")
               /\ log.user_sentiment = JsNull => record.Sentiment = Str("N/A")
               /\ log.call_recording = JsNull => record.CallRecordingURL = Str("N/A")

\* C10: once the error is set, no step clears it, and the page renders the
\* error panel from then on.
C10_ErrorIsSticky ==
    [][error # JsNull => error' = error /\ View' = "error"]_vars

\* C10 witness: the error panel is rendered although a load has just
\* succeeded and stored its call logs.
C10_SuccessBehindErrorPanel ==
    /\ error # JsNull
    /\ View = "error"
    /\ LoadSucceeded
    /\ callLogs = settled.logsValue
    /\ callLogs # <<>>



=============================================================================
